---- MODULE Spec2Model ----
(***************************************************************************)
(* Verification model of fbrinadze/file-exporter:                          *)
(*   - ScanCache          (src/includes/scan_cache.py)                     *)
(*   - DuplicateDetector  (src/includes/duplicate_detector.py)             *)
(*   - scan_directory     (src/file_exporter_core.py)                      *)
(* Each component has its own specification (SpecCache, SpecDup, SpecScan) *)
(* over its own variables; the variables of the other components stay at   *)
(* their initial values.                                                   *)
(***************************************************************************)
EXTENDS Integers, Sequences, FiniteSets, TLC

VARIABLES
    \* ---- ScanCache ----
    cache,      \* self.cache: normalized directory -> entry
    history,    \* self.history: list of normalized directories
    now,        \* time.time()
    mtime,      \* os.path.getmtime of each directory
    store,      \* the cache file on disk (self.cache_file)
    lastCall    \* the last ScanCache call (put/get/clear): arguments, branch taken, value returned

VARIABLES
    \* ---- DuplicateDetector ----
    fs,           \* the file system: path -> [content, status]
    dupInput,     \* the row-set handed to find_duplicates
    file_hashes,  \* self.file_hashes: ordered dict, full hash -> list of records
    duplicates,   \* self.duplicates: the list of groups
    dupCall       \* the last find_duplicates call: its arguments

VARIABLES
    \* ---- scan_directory ----
    tree,                \* what os.walk yields: a list of directories, each a list of files
    extensions,          \* the extensions argument
    scanPc,              \* "walk": at the head of the outer loop; "files": in the inner loop;
                         \* "returned"; "raised"
    dirIdx,              \* index in tree of the directory last yielded by os.walk
    fileIdx,             \* index of the next file of that directory
    files,               \* the list of rows built so far
    file_count,
    error_count,
    consecutive_errors,
    cancelInfo,          \* None, or what the scan had done when cancel_check first returned true
    worstRun,            \* the longest run of per-file errors without a built row in between
    is_network,          \* is_network_path(directory)
    progress             \* the values progress_callback has received, in order

VARIABLES
    \* ---- build_row, parse_folder_structure ----
    rowCall              \* the last call of one of these functions: arguments and value returned

VARIABLES
    \* ---- export workflow (FileLocationExporter.export) ----
    exp                  \* the export in progress or last made: its position, the settings
                         \* read at its start, the rows it holds and where they came from

cacheVars == <<cache, history, now, mtime, store, lastCall>>
dupVars == <<fs, dupInput, file_hashes, duplicates, dupCall>>
scanVars == <<tree, extensions, scanPc, dirIdx, fileIdx, files, file_count, error_count,
              consecutive_errors, cancelInfo, worstRun, is_network, progress>>

rowVars == <<rowCall>>
expVars == <<exp>>

vars == <<cacheVars, dupVars, scanVars, rowVars, expVars>>

\* What each component leaves alone
notCacheVars == <<dupVars, scanVars, rowVars, expVars>>
notDupVars == <<cacheVars, scanVars, rowVars, expVars>>
notScanVars == <<cacheVars, dupVars, rowVars, expVars>>
notRowVars == <<cacheVars, dupVars, scanVars, expVars>>
notCacheExpVars == <<dupVars, scanVars, rowVars>>

\* Optional values: None is the empty tuple, a present value x is <<x>>
None == <<>>
Some(x) == <<x>>

\* Python's min/max on two integers
Min(a, b) == IF a <= b THEN a ELSE b

(***************************************************************************)
(* ScanCache                                                               *)
(***************************************************************************)

\* Model bounds
max_cache_size  == 2    \* ScanCache(max_cache_size=...), scaled down
max_age_seconds == 1    \* max_age_days * 24 * 60 * 60, in model time units
MaxTime         == 2    \* the clock runs from 0 to MaxTime

\* Directory arguments as lists of path components (the path split on os.sep).
PathArgs == { <<"a">>, <<"a", "">>, <<".", "b">>, <<"b", "..", "c">> }

\* Row-sets handed to put()
RowSets == { <<>>, <<"r1", "r2">> }

\* os.path.normpath on a relative path: drops "" and "." components and
\* collapses "x/.." pairs; an empty result is ".".
RECURSIVE NormComps(_, _)
NormComps(comps, new_comps) ==
    IF comps = <<>> THEN new_comps
    ELSE LET comp == Head(comps)
             rest == Tail(comps)
         IN  IF comp \in {"", "."} THEN NormComps(rest, new_comps)
             ELSE IF \/ comp # ".."
                     \/ new_comps = <<>>
                     \/ new_comps[Len(new_comps)] = ".."
                  THEN NormComps(rest, Append(new_comps, comp))
                  ELSE NormComps(rest, SubSeq(new_comps, 1, Len(new_comps) - 1))

normpath(path) ==
    LET r == NormComps(path, <<>>) IN IF r = <<>> THEN <<".">> ELSE r

Keys == { normpath(p) : p \in PathArgs }

\* The (directory, results) arguments of put(): both row-sets for the spellings
\* of directory a, the non-empty one for the other directories
PutArgs ==
    { <<p, r>> \in PathArgs \X RowSets : normpath(p) = <<"a">> \/ r # <<>> }

\* dict helpers
DictDel(d, k) == [x \in (DOMAIN d) \ {k} |-> d[x]]
DictSet(d, k, v) == [x \in (DOMAIN d) \cup {k} |-> IF x = k THEN v ELSE d[x]]

\* list helpers
InList(x, l) == \E i \in 1..Len(l) : l[i] = x
FirstIndex(x, l) == CHOOSE i \in 1..Len(l) : l[i] = x /\ \A j \in 1..(i - 1) : l[j] # x
\* list.remove(x): removes the first occurrence
ListRemove(l, x) ==
    LET i == FirstIndex(x, l)
    IN  SubSeq(l, 1, i - 1) \o SubSeq(l, i + 1, Len(l))
\* l[-n:]
LastN(l, n) == IF Len(l) <= n THEN l ELSE SubSeq(l, Len(l) - n + 1, Len(l))

\* The empty dict
EmptyDict == [x \in {} |-> 0]

\* The cache file: absent, or what json.dump wrote into it
AbsentStore == [kind |-> "absent", cache |-> EmptyDict, history |-> <<>>]

\* save_cache: json.dump({'cache': ..., 'history': ...}) over the old file
Saved_CacheOnly(c, h) == [kind |-> "object", cache |-> c, history |-> <<>>]

Saved(c, h) == [kind |-> "object", cache |-> c, history |-> h]

\* State after ScanCache.__init__ with no cache file on disk
InitCacheVars ==
    /\ cache = EmptyDict
    /\ history = <<>>
    /\ now = 0
    /\ mtime = [k \in Keys |-> 0]
    /\ store = AbsentStore
    /\ lastCall = [kind |-> "init"]

\* Record of a get call: its argument, the branch taken, the value returned, and
\* the directory argument of the call before it when that call was a put of the
\* same normalized directory
GetCall(directory, outcome, value) ==
    [kind |-> "get", dir |-> directory, outcome |-> outcome, ret |-> value,
     after_put |-> IF lastCall.kind = "put" /\ normpath(lastCall.dir) = normpath(directory)
                   THEN Some(lastCall.dir) ELSE None]

\* data.get('results'), as an optional value
ResultsOf(data) == IF "results" \in DOMAIN data THEN Some(data.results) ELSE None

\* ScanCache.get(directory); mtime_raises: os.path.getmtime raises (directory gone)
Get_NoMtimeCheck(directory, mtime_raises) ==
    LET d == normpath(directory) IN
    /\ UNCHANGED <<history, now, mtime, store>>
    /\ IF d \notin DOMAIN cache
       THEN /\ cache' = cache
            /\ lastCall' = GetCall(directory, "miss", None)
       ELSE LET data == cache[d] IN
            IF now - data.timestamp > max_age_seconds
            THEN /\ cache' = DictDel(cache, d)
                 /\ lastCall' = GetCall(directory, "expired", None)
            ELSE /\ cache' = cache
                 /\ lastCall' = GetCall(directory, "hit", ResultsOf(data))

\* ScanCache.get that also refreshes the recency of a directory it serves
Get_RefreshesRecency(directory, mtime_raises) ==
    LET d == normpath(directory) IN
    /\ UNCHANGED <<now, mtime, store>>
    /\ IF d \notin DOMAIN cache
       THEN /\ cache' = cache
            /\ history' = history
            /\ lastCall' = GetCall(directory, "miss", None)
       ELSE LET data == cache[d] IN
            IF now - data.timestamp > max_age_seconds
            THEN /\ cache' = DictDel(cache, d)
                 /\ history' = history
                 /\ lastCall' = GetCall(directory, "expired", None)
            ELSE IF ~mtime_raises /\ mtime[d] > data.timestamp
            THEN /\ cache' = DictDel(cache, d)
                 /\ history' = history
                 /\ lastCall' = GetCall(directory, "modified", None)
            ELSE /\ cache' = cache
                 /\ history' = Append(IF InList(d, history) THEN ListRemove(history, d)
                                      ELSE history, d)
                 /\ lastCall' = GetCall(directory,
                                        IF mtime_raises THEN "hit_nomtime" ELSE "hit",
                                        ResultsOf(data))

Get(directory, mtime_raises) ==
    LET d == normpath(directory) IN
    /\ UNCHANGED <<history, now, mtime, store>>
    /\ IF d \notin DOMAIN cache
       THEN /\ cache' = cache
            /\ lastCall' = GetCall(directory, "miss", None)
       ELSE LET data == cache[d] IN
            IF now - data.timestamp > max_age_seconds
            THEN \* expired
                 /\ cache' = DictDel(cache, d)
                 /\ lastCall' = GetCall(directory, "expired", None)
            ELSE IF ~mtime_raises /\ mtime[d] > data.timestamp
            THEN \* directory modified since it was cached
                 /\ cache' = DictDel(cache, d)
                 /\ lastCall' = GetCall(directory, "modified", None)
            ELSE \* valid (also when getmtime raised: except/pass)
                 /\ cache' = cache
                 /\ lastCall' = GetCall(directory,
                                        IF mtime_raises THEN "hit_nomtime" ELSE "hit",
                                        ResultsOf(data))

\* The cache and history after put's size-limit block (lines 130-137)
EnforceLimit(d) ==
    IF Cardinality(DOMAIN cache) >= max_cache_size /\ d \notin DOMAIN cache /\ history # <<>>
    THEN LET oldest == history[1]
         IN  [cache |-> IF oldest \in DOMAIN cache THEN DictDel(cache, oldest) ELSE cache,
              history |-> Tail(history)]
    ELSE [cache |-> cache, history |-> history]

\* Lines 147-149: if directory in history: history.remove(directory); then append
MoveToEnd_AppendOnly(h, d) == Append(h, d)

MoveToEnd(h, d) == Append(IF InList(d, h) THEN ListRemove(h, d) ELSE h, d)

\* ScanCache.put(directory, results)
Put_NoNormpath(directory, results) ==
    LET d  == directory
        e  == EnforceLimit(d)
        h2 == MoveToEnd(e.history, d)
    IN  /\ cache' = DictSet(e.cache, d,
                       [results |-> results, timestamp |-> now, file_count |-> Len(results)])
        /\ history' = LastN(h2, max_cache_size * 2)
        /\ store' = Saved(cache', history')
        /\ lastCall' = [kind |-> "put", dir |-> directory, rows |-> results, time |-> now,
                        moved |-> InList(d, history)]
        /\ UNCHANGED <<now, mtime>>

Put(directory, results) ==
    LET d  == normpath(directory)
        e  == EnforceLimit(d)
        h2 == MoveToEnd(e.history, d)
    IN  /\ cache' = DictSet(e.cache, d,
                       [results |-> results, timestamp |-> now, file_count |-> Len(results)])
        /\ history' = LastN(h2, max_cache_size * 2)
        /\ store' = Saved(cache', history')
        /\ lastCall' = [kind |-> "put", dir |-> directory, rows |-> results, time |-> now,
                        moved |-> InList(d, history)]
        /\ UNCHANGED <<now, mtime>>

\* ScanCache.clear()
Clear ==
    /\ cache' = EmptyDict
    /\ history' = <<>>
    /\ store' = Saved(cache', history')
    /\ lastCall' = [kind |-> "clear"]
    /\ UNCHANGED <<now, mtime>>

\* Environment: the clock advances
Tick ==
    /\ now < MaxTime
    /\ now' = now + 1
    /\ UNCHANGED <<cache, history, mtime, store, lastCall>>

\* Environment: a cached directory is modified (its mtime becomes the current
\* time). A modification of a directory that is not cached is not observable:
\* put stamps the entry with the current time, which no earlier mtime exceeds.
TouchDir(k) ==
    /\ k \in DOMAIN cache
    /\ mtime[k] # now
    /\ mtime' = [mtime EXCEPT ![k] = now]
    /\ UNCHANGED <<cache, history, now, store, lastCall>>

\* The directories the environment modifies
ModifiedDirs == { <<"a">>, <<"b">> }

\* What os.path.getmtime can do in get(directory): it is called only for an entry
\* that is cached and within its max age, and then it returns or raises
MtimeRaises(directory) ==
    LET d == normpath(directory)
    IN  IF d \in DOMAIN cache /\ ~(now - cache[d].timestamp > max_age_seconds)
        THEN BOOLEAN ELSE { FALSE }

NextCache ==
    \/ \E p \in PathArgs : \E raises \in MtimeRaises(p) :
          Get(p, raises) /\ UNCHANGED notCacheVars
    \/ \E a \in PutArgs : Put(a[1], a[2]) /\ UNCHANGED notCacheVars
    \/ Clear /\ UNCHANGED notCacheVars
    \/ Tick /\ UNCHANGED notCacheVars
    \/ \E k \in ModifiedDirs : TouchDir(k) /\ UNCHANGED notCacheVars

\* The DuplicateDetector before any call, over an empty file system
IdleDupVars ==
    /\ fs = <<>>
    /\ dupInput = <<>>
    /\ file_hashes = <<>>
    /\ duplicates = <<>>
    /\ dupCall = [kind |-> "init"]

\* scan_directory not called: nothing to walk
IdleScanVars ==
    /\ tree = <<>>
    /\ extensions = <<>>
    /\ scanPc = "returned"
    /\ dirIdx = 0
    /\ fileIdx = 0
    /\ files = <<>>
    /\ file_count = 0
    /\ error_count = 0
    /\ consecutive_errors = 0
    /\ cancelInfo = <<>>
    /\ worstRun = 0
    /\ is_network = FALSE
    /\ progress = <<>>

\* build_row and parse_folder_structure not called
IdleRowVars == rowCall = [fn |-> "none"]

\* No export started
IdleExp ==
    [pc |-> "idle", directory |-> <<>>, options |-> <<>>, extensions |-> <<>>,
     files |-> <<>>, source |-> "none", cancelled |-> FALSE]
IdleExpVars == exp = IdleExp

InitCache == InitCacheVars /\ IdleDupVars /\ IdleScanVars /\ IdleRowVars /\ IdleExpVars

SpecCache == InitCache /\ [][NextCache]_vars

(***************************************************************************)
(* ScanCache claims                                                        *)
(***************************************************************************)

\* A step of the cache itself (put/get/clear): the environment steps are the
\* only ones that change the clock or a directory's mtime.
IsCallStep == UNCHANGED <<now, mtime>>
IsPutStep == IsCallStep /\ lastCall'.kind = "put"
IsGetStep == IsCallStep /\ lastCall'.kind = "get"

Size(c) == Cardinality(DOMAIN c)

\* C1: after any sequence of put, get and clear calls on a cache that started
\* empty, the number of cached entries never exceeds max_cache_size.
C1_SizeBounded == Size(cache) <= max_cache_size

TooOld(e) == now - e.timestamp > max_age_seconds
DirModifiedSince(k, e) == mtime[k] > e.timestamp

\* A directory enters the cache mapping only by a put of that directory.
OnlyPutInserts ==
    \A k \in Keys :
        (k \notin DOMAIN cache /\ k \in DOMAIN cache') =>
            (IsPutStep /\ normpath(lastCall'.dir) = k)

\* C3 (as stated): get never returns rows for an entry that is too old or whose
\* directory was modified after capture; it returns None and removes the entry,
\* and the directory stays absent until the next put of it.
C3_StaleNeverServed ==
    [][ /\ IsGetStep =>
             LET k == normpath(lastCall'.dir) IN
             (k \in DOMAIN cache /\ (TooOld(cache[k]) \/ DirModifiedSince(k, cache[k]))) =>
                (lastCall'.ret = None /\ k \notin DOMAIN cache')
        /\ OnlyPutInserts
      ]_vars

\* C3 (amended): the same, for a directory modification time that get could
\* read; when os.path.getmtime raises, an entry within its max age is returned.
C3_StaleNeverServedWhenReadable ==
    [][ /\ IsGetStep =>
             LET k == normpath(lastCall'.dir) IN
             /\ (k \in DOMAIN cache /\ TooOld(cache[k])) =>
                   (lastCall'.ret = None /\ k \notin DOMAIN cache')
             /\ (k \in DOMAIN cache /\ DirModifiedSince(k, cache[k])
                   /\ lastCall'.outcome # "hit_nomtime") =>
                   (lastCall'.ret = None /\ k \notin DOMAIN cache')
             /\ lastCall'.outcome = "hit_nomtime" =>
                   (k \in DOMAIN cache /\ ~TooOld(cache[k])
                      /\ lastCall'.ret = Some(cache[k].results) /\ cache' = cache)
        /\ OnlyPutInserts
      ]_vars

\* A get found the directory modified after capture, returned None and evicted it
C3_Witness ==
    /\ lastCall.kind = "get"
    /\ lastCall.outcome = "modified"
    /\ lastCall.ret = None
    /\ normpath(lastCall.dir) \notin DOMAIN cache

\* C4: put(D, rows) followed, with no other cache call in between and within
\* the max age, by get(D') with normpath(D') = normpath(D) returns exactly rows,
\* provided D's mtime is not later than the capture timestamp.
C4_PutThenGetRoundTrip ==
    [][ (lastCall.kind = "put" /\ IsGetStep) =>
          LET k == normpath(lastCall.dir) IN
          ( /\ normpath(lastCall'.dir) = k
            /\ mtime[k] <= lastCall.time
            /\ now - lastCall.time <= max_age_seconds ) =>
              lastCall'.ret = Some(lastCall.rows)
      ]_vars

\* get through another spelling of the directory just put returned the rows
C4_Witness ==
    /\ lastCall.kind = "get"
    /\ lastCall.after_put # None
    /\ lastCall.after_put # Some(lastCall.dir)
    /\ normpath(lastCall.after_put[1]) = normpath(lastCall.dir)
    /\ lastCall.ret = Some(<<"r1", "r2">>)

(***************************************************************************)
(* DuplicateDetector                                                       *)
(***************************************************************************)

\* Model bounds
SampleSize == 1    \* calculate_quick_hash(sample_size=1024), scaled down
MaxFiles   == 3    \* longest input row-set

\* File paths on disk; "" is a record without a FullPath
FilePaths == { "p1", "p2", "p3" }
RecordPaths == FilePaths \cup { "" }

\* File contents, as lists of bytes: empty, one byte, two bytes with the same
\* first byte, three bytes differing only in the middle
Contents ==
    { <<>>, <<"x">>, <<"y">>, <<"x", "a">>, <<"x", "b">>,
      <<"x", "m", "z">>, <<"x", "n", "z">> }

\* A file: readable ("ok"), present but failing on open ("unreadable"), or absent
Files ==
    [content : Contents, status : {"ok"}]
        \cup [content : { <<>>, <<"x">> }, status : {"unreadable"}]
        \cup [content : { <<>> }, status : {"missing"}]

\* An input record (file_info dict)
Record(path) == [FullPath |-> path]

RECURSIVE SeqsUpTo(_, _)
SeqsUpTo(S, n) ==
    IF n = 0 THEN { <<>> }
    ELSE LET shorter == SeqsUpTo(S, n - 1)
         IN  shorter \cup { Append(q, x) : q \in shorter, x \in S }

\* The input row-sets
Inputs == SeqsUpTo({ Record(p) : p \in RecordPaths }, MaxFiles)

\* os.path.exists, os.path.getsize, open(...).read() on the file system f
exists(f, path) == path \in DOMAIN f /\ f[path].status # "missing"
getsize(f, path) == Len(f[path].content)
CanOpen(f, path) == exists(f, path) /\ f[path].status = "ok"

\* hashlib.md5(bytes).hexdigest(): a function of the bytes, collisions excluded
Md5(bytes) == <<"md5">> \o bytes

\* str(file_size).encode()
SizeStr(n) == << <<"0", "1", "2", "3", "4", "5">>[n + 1] >>

\* DuplicateDetector.calculate_hash: Some(hash), or None on an I/O error
calculate_hash_FirstChunkOnly(f, path) ==
    IF CanOpen(f, path)
    THEN Some(Md5(SubSeq(f[path].content, 1, Min(1, Len(f[path].content)))))
    ELSE None

calculate_hash_ErrorIgnored(f, path) ==
    IF exists(f, path) THEN Some(Md5(f[path].content)) ELSE None

calculate_hash(f, path) ==
    IF CanOpen(f, path) THEN Some(Md5(f[path].content)) ELSE None

\* DuplicateDetector.calculate_quick_hash: Some(hash), or None on an I/O error
calculate_quick_hash(f, path) ==
    IF ~exists(f, path) THEN None
    ELSE LET file_size == getsize(f, path)
             content == f[path].content
         IN  IF file_size = 0 THEN Some(<<"empty_file">>)
             ELSE IF ~CanOpen(f, path) THEN None
             ELSE LET first_chunk == SubSeq(content, 1, Min(SampleSize, file_size))
                      last_chunk == IF file_size > SampleSize * 2
                                    THEN SubSeq(content, file_size - SampleSize + 1, file_size)
                                    ELSE <<>>
                  IN  Some(Md5(first_chunk \o last_chunk \o SizeStr(file_size)))

\* defaultdict(list) as an insertion-ordered list of [key, val] entries:
\* d[k].append(v)
DictAppend(d, k, v) ==
    IF \E i \in 1..Len(d) : d[i].key = k
    THEN LET i == CHOOSE j \in 1..Len(d) : d[j].key = k
         IN  [d EXCEPT ![i].val = Append(@, v)]
    ELSE Append(d, [key |-> k, val |-> <<v>>])

\* for item, key in zip(items, keys): if key is not None: d[key].append(item)
RECURSIVE GroupInto(_, _, _)
GroupInto(d, items, keys) ==
    IF items = <<>> THEN d
    ELSE GroupInto(IF Head(keys) = None THEN d ELSE DictAppend(d, Head(keys)[1], Head(items)),
                   Tail(items), Tail(keys))

\* The concatenation of the lists of a list
RECURSIVE Concat(_)
Concat(ls) == IF ls = <<>> THEN <<>> ELSE Head(ls) \o Concat(Tail(ls))

\* The elements of a list that satisfy a mask
RECURSIVE Filter(_, _)
Filter(l, keep) ==
    IF l = <<>> THEN <<>>
    ELSE (IF Head(keep) THEN <<Head(l)>> ELSE <<>>) \o Filter(Tail(l), Tail(keep))

\* Step 1: size_groups (lines 110-121)
SizeGroups(f, file_list) ==
    GroupInto(<<>>, file_list,
              [i \in 1..Len(file_list) |->
                  LET filepath == file_list[i].FullPath
                  IN  IF filepath = "" \/ ~exists(f, filepath) THEN None
                      ELSE Some(getsize(f, filepath))])

\* The groups of an ordered dict with at least 2 members, in order
GroupsOfTwoOrMore(d) ==
    LET vals == [i \in 1..Len(d) |-> d[i].val]
    IN  Filter(vals, [i \in 1..Len(d) |-> Len(d[i].val) >= 2])

\* Lines 133-156: the records of one size group that reach the full hash when
\* the quick hash is enabled, in the order they are hashed
QuickSurvivors_MinThree(f, group) ==
    LET quick_hash_groups ==
            GroupInto(<<>>, group,
                      [i \in 1..Len(group) |-> calculate_quick_hash(f, group[i].FullPath)])
        vals == [i \in 1..Len(quick_hash_groups) |-> quick_hash_groups[i].val]
    IN  Concat(Filter(vals, [i \in 1..Len(vals) |-> Len(vals[i]) > 2]))

QuickSurvivors(f, group) ==
    LET quick_hash_groups ==
            GroupInto(<<>>, group,
                      [i \in 1..Len(group) |-> calculate_quick_hash(f, group[i].FullPath)])
    IN  Concat(GroupsOfTwoOrMore(quick_hash_groups))

\* Lines 127-168 with every record hashed, and appended to its bucket, twice
Candidates_Twice(f, file_list, use_quick_hash) ==
    LET groups == GroupsOfTwoOrMore(SizeGroups(f, file_list))
        once == Concat([i \in 1..Len(groups) |->
                           IF use_quick_hash THEN QuickSurvivors(f, groups[i]) ELSE groups[i]])
    IN  once \o once

\* Lines 127-168: the records that are full-hashed, in order
Candidates(f, file_list, use_quick_hash) ==
    LET groups == GroupsOfTwoOrMore(SizeGroups(f, file_list))
    IN  Concat([i \in 1..Len(groups) |->
                   IF use_quick_hash THEN QuickSurvivors(f, groups[i]) ELSE groups[i]])

\* self.file_hashes.clear() (line 106)
ClearedHashes_Kept(hashes) == hashes

ClearedHashes(hashes) == <<>>

\* self.file_hashes after step 2, filled from the index `start`
FileHashesFrom(start, f, file_list, use_quick_hash) ==
    LET cands == Candidates(f, file_list, use_quick_hash)
    IN  GroupInto(start, cands,
                  [i \in 1..Len(cands) |-> calculate_hash(f, cands[i].FullPath)])

\* self.file_hashes after step 2 on a new detector
FileHashes(f, file_list, use_quick_hash) ==
    FileHashesFrom(<<>>, f, file_list, use_quick_hash)

\* sum(os.path.getsize(r['FullPath']) for r in file_list if os.path.exists(...))
RECURSIVE TotalSize(_, _)
TotalSize(f, file_list) ==
    IF file_list = <<>> THEN 0
    ELSE (IF exists(f, Head(file_list).FullPath)
          THEN getsize(f, Head(file_list).FullPath) ELSE 0)
         + TotalSize(f, Tail(file_list))

\* Step 3 (lines 171-178): one group per hash bucket with more than 1 record
MakeGroup(f, entry) ==
    [hash |-> entry.key, count |-> Len(entry.val), files |-> entry.val,
     total_size |-> TotalSize(f, entry.val)]

Buckets_MinOne(hashes) == [i \in 1..Len(hashes) |-> TRUE]

Buckets(hashes) == [i \in 1..Len(hashes) |-> Len(hashes[i].val) > 1]

UnsortedGroups(f, hashes) ==
    LET kept == Filter(hashes, Buckets(hashes))
    IN  [i \in 1..Len(kept) |-> MakeGroup(f, kept[i])]

\* list.sort(key=count, reverse=True): stable, descending
RECURSIVE InsertByCount(_, _)
InsertByCount(sorted, g) ==
    IF sorted = <<>> THEN <<g>>
    ELSE IF Head(sorted).count >= g.count
         THEN <<Head(sorted)>> \o InsertByCount(Tail(sorted), g)
         ELSE <<g>> \o sorted

RECURSIVE SortByCountDesc(_, _)
SortByCountDesc(sorted, rest) ==
    IF rest = <<>> THEN sorted
    ELSE SortByCountDesc(InsertByCount(sorted, Head(rest)), Tail(rest))

\* self.duplicates after steps 3 and the sort (lines 170-181)
Duplicates(f, hashes) == SortByCountDesc(<<>>, UnsortedGroups(f, hashes))

\* The progress callback is called every 10 processed records (lines 143, 167)
progress_interval == 10

\* total_files (line 124): the members of the size groups of 2 or more
TotalFiles_AllRecords(f, file_list) == Len(file_list)

TotalFiles(f, file_list) == Len(Concat(GroupsOfTwoOrMore(SizeGroups(f, file_list))))

\* Lines 142-144 and 166-168 over the records still to process: processed += 1,
\* and a callback when processed % 10 == 0
RECURSIVE ProgressFrom(_, _, _, _)
ProgressFrom(calls, processed, pending, total_files) ==
    IF pending = <<>> THEN calls
    ELSE LET p == processed + 1
         IN  ProgressFrom(IF p % progress_interval = 0
                          THEN Append(calls, [processed |-> p, total |-> total_files])
                          ELSE calls,
                          p, Tail(pending), total_files)

\* The calls progress_callback receives during find_duplicates: with the quick
\* hash every member of a size group of 2 or more is counted in the quick-hash
\* loop, without it in the full-hash loop
ProgressCalls(f, file_list, use_quick_hash) ==
    ProgressFrom(<<>>, 0, Concat(GroupsOfTwoOrMore(SizeGroups(f, file_list))),
                 TotalFiles(f, file_list))

\* DuplicateDetector.find_duplicates(files, use_quick_hash)
find_duplicates(file_list, use_quick_hash) ==
    LET hashes == FileHashesFrom(ClearedHashes(file_hashes), fs, file_list, use_quick_hash)
    IN  /\ file_hashes' = hashes
        /\ duplicates' = Duplicates(fs, hashes)
        /\ dupCall' = [kind |-> "find_duplicates", files |-> file_list,
                       use_quick_hash |-> use_quick_hash,
                       had_groups |-> duplicates # <<>>,
                       progress |-> ProgressCalls(fs, file_list, use_quick_hash)]
        /\ UNCHANGED <<fs, dupInput>>

\* DuplicateDetector.__init__, over any file system and with any row-set at hand
InitDupVars ==
    /\ fs \in [FilePaths -> Files]
    /\ dupInput \in Inputs
    /\ file_hashes = <<>>
    /\ duplicates = <<>>
    /\ dupCall = [kind |-> "init"]

InitDup == InitDupVars /\ InitCacheVars /\ IdleScanVars /\ IdleRowVars /\ IdleExpVars

NextDup ==
    \/ \E q \in BOOLEAN : find_duplicates(dupInput, q) /\ UNCHANGED notDupVars

SpecDup == InitDup /\ [][NextDup]_vars

(***************************************************************************)
(* DuplicateDetector claims                                                *)
(***************************************************************************)

\* find_duplicates has returned
DupDone == dupCall.kind = "find_duplicates"

\* Every input record names a file that exists and can be read
AllReadable ==
    \A i \in 1..Len(dupInput) : CanOpen(fs, dupInput[i].FullPath)

SameContent(r1, r2) == fs[r1.FullPath].content = fs[r2.FullPath].content

InGroup(g, r) == \E m \in 1..Len(g.files) : g.files[m] = r
InSameGroup(r1, r2) ==
    \E n \in 1..Len(duplicates) : InGroup(duplicates[n], r1) /\ InGroup(duplicates[n], r2)

\* C5: for a row-set whose files all exist and are readable, two input records
\* are in the same group iff their files have identical content, and a record
\* is in some group iff another input record has identical content.
C5_GroupsAreContentClasses ==
    (DupDone /\ AllReadable) =>
        \A i \in 1..Len(dupInput) :
            /\ \A j \in (1..Len(dupInput)) \ {i} :
                  InSameGroup(dupInput[i], dupInput[j])
                     <=> SameContent(dupInput[i], dupInput[j])
            /\ InSameGroup(dupInput[i], dupInput[i])
                  <=> \E j \in (1..Len(dupInput)) \ {i} :
                         SameContent(dupInput[i], dupInput[j])

\* {A, B, C} with A and B identical and C of the same size and quick hash but
\* different content: exactly one group, {A, B}
C5_Witness ==
    /\ DupDone /\ AllReadable
    /\ dupCall.use_quick_hash
    /\ dupInput = <<Record("p1"), Record("p2"), Record("p3")>>
    /\ fs["p1"].content = <<"x", "m", "z">>
    /\ fs["p2"].content = <<"x", "m", "z">>
    /\ fs["p3"].content = <<"x", "n", "z">>
    /\ Len(duplicates) = 1
    /\ duplicates[1].files = <<Record("p1"), Record("p2")>>

\* The groups as a set: each group's hash and members
GroupSet(groups) ==
    { [hash |-> groups[n].hash, files |-> groups[n].files] : n \in 1..Len(groups) }

\* C6: for a fixed row-set and unchanged files, the groups found with the
\* quick hash enabled and disabled are the same: the same set of groups, each
\* with the same hash and the same members.
C6_QuickHashEquivalence ==
    DupDone =>
        GroupSet(duplicates)
           = GroupSet(Duplicates(fs, FileHashes(fs, dupInput, ~dupCall.use_quick_hash)))

\* A call with the quick hash enabled in which the quick hash kept a record
\* from being full-hashed, and that found a group
C6_Witness ==
    /\ DupDone
    /\ dupCall.use_quick_hash
    /\ Candidates(fs, dupInput, TRUE) # Candidates(fs, dupInput, FALSE)
    /\ duplicates # <<>>

\* C10: every group has at least 2 members, its count is the number of its
\* members, and every member's content hash is the group's hash.
C10_GroupsWellFormed ==
    DupDone =>
        \A n \in 1..Len(duplicates) :
            LET g == duplicates[n] IN
            /\ Len(g.files) >= 2
            /\ g.count = Len(g.files)
            /\ \A m \in 1..Len(g.files) :
                  calculate_hash(fs, g.files[m].FullPath) = Some(g.hash)

\* A call that found a group and also hashed a file no other file matched
C10_Witness ==
    /\ DupDone
    /\ duplicates # <<>>
    /\ \E i \in 1..Len(file_hashes) : Len(file_hashes[i].val) = 1

(***************************************************************************)
(* scan_directory                                                          *)
(***************************************************************************)

max_consecutive_errors == 10

\* Model bounds
MaxDirs     == 2    \* directories in a tree
MaxDirFiles == 2    \* files in a directory

Max(a, b) == IF a >= b THEN a ELSE b

\* str.lower() on the extensions of the model
Lower(ext) ==
    IF ext \in { ".TXT", ".Txt" } THEN ".txt" ELSE IF ext = ".PY" THEN ".py" ELSE ext

\* A file of the tree: the extension of its name (os.path.splitext(filename)[1])
\* and whether building its row raises
TxtFile    == [ext |-> ".TXT", fails |-> FALSE]
PyFile     == [ext |-> ".py", fails |-> FALSE]
BrokenFile == [ext |-> ".txt", fails |-> TRUE]
FileKinds == { TxtFile, PyFile, BrokenFile }

\* Small trees: up to MaxDirs directories of up to MaxDirFiles files each
SmallTrees == SeqsUpTo(SeqsUpTo(FileKinds, MaxDirFiles), MaxDirs)

\* Trees with a long run of files whose rows cannot be built, in the only
\* directory or followed by one more directory
ErrorRuns ==
    { [i \in 1..k |-> BrokenFile] \o t :
        k \in { max_consecutive_errors - 1, max_consecutive_errors },
        t \in { <<>>, <<TxtFile>> } }
ErrorRunTrees ==
    { <<r>> : r \in ErrorRuns }
        \cup { <<r, d>> : r \in ErrorRuns, d \in { <<>>, <<TxtFile>> } }

Trees == SmallTrees \cup ErrorRunTrees

\* The extensions argument: no filter, or a filter as parse_extensions builds it
Filters == { <<>>, <<".txt">> }

\* ext not in extensions (lines 414-417); an empty list filters nothing
FilteredOut_Never(filename_ext, exts) == FALSE

FilteredOut(filename_ext, exts) ==
    exts # <<>> /\ ~InList(Lower(filename_ext), exts)

\* The row of a file (build_row), identified by its directory and its place in it
Row(d, i) == [dir |-> d, file |-> i]

\* The number of files of the first d directories
RECURSIVE FilesUpTo(_, _)
FilesUpTo(t, d) == IF d = 0 THEN 0 ELSE Len(t[d]) + FilesUpTo(t, d - 1)

\* What the scan had done when cancel_check returned true: the rows built and
\* the files iterated over
CancelSeen(processed) ==
    IF cancelInfo = None
    THEN Some([rows |-> Len(files), processed |-> processed])
    ELSE cancelInfo

\* batch_size = 50 if is_network else 100 (line 392)
batch_size_AlwaysLocal(network) == 100

batch_size(network) == IF network THEN 50 ELSE 100

\* Lines 463-465: the final progress update, when the loop has ended
FinalProgress == IF file_count > 0 THEN Append(progress, file_count) ELSE progress

\* Outer loop, one directory from os.walk (lines 395-405)
NextDir(cancel) ==
    /\ scanPc = "walk"
    /\ dirIdx < Len(tree)
    /\ dirIdx' = dirIdx + 1
    /\ IF cancel
       THEN \* break
            /\ scanPc' = "returned"
            /\ cancelInfo' = CancelSeen(FilesUpTo(tree, dirIdx))
            /\ progress' = FinalProgress
            /\ UNCHANGED fileIdx
       ELSE IF consecutive_errors >= max_consecutive_errors
       THEN \* raise ConnectionError, re-raised as Exception (lines 401-405, 459-461)
            /\ scanPc' = "raised"
            /\ UNCHANGED <<cancelInfo, fileIdx, progress>>
       ELSE /\ scanPc' = "files"
            /\ fileIdx' = 1
            /\ UNCHANGED <<cancelInfo, progress>>
    /\ UNCHANGED <<tree, extensions, files, file_count, error_count, consecutive_errors,
                   worstRun, is_network>>

\* os.walk is exhausted: the function returns files (lines 463-470)
EndWalk ==
    /\ scanPc = "walk"
    /\ dirIdx = Len(tree)
    /\ scanPc' = "returned"
    /\ progress' = FinalProgress
    /\ UNCHANGED <<tree, extensions, dirIdx, fileIdx, files, file_count, error_count,
                   consecutive_errors, cancelInfo, worstRun, is_network>>

\* Inner loop, one file name (lines 407-457); build_fails: the try block raises
NextFile(cancel) ==
    /\ scanPc = "files"
    /\ fileIdx <= Len(tree[dirIdx])
    /\ LET f == tree[dirIdx][fileIdx] IN
       IF cancel
       THEN \* break out of the inner loop
            /\ scanPc' = "walk"
            /\ cancelInfo' = CancelSeen(FilesUpTo(tree, dirIdx - 1) + fileIdx - 1)
            /\ UNCHANGED <<fileIdx, files, file_count, error_count, consecutive_errors,
                           worstRun, progress>>
       ELSE /\ fileIdx' = fileIdx + 1
            /\ UNCHANGED <<scanPc, cancelInfo>>
            /\ IF FilteredOut(f.ext, extensions)
               THEN \* continue
                    UNCHANGED <<files, file_count, error_count, consecutive_errors, worstRun,
                                progress>>
               ELSE IF f.fails
               THEN \* except: log and continue
                    /\ error_count' = error_count + 1
                    /\ consecutive_errors' = consecutive_errors + 1
                    /\ worstRun' = Max(worstRun, consecutive_errors + 1)
                    /\ UNCHANGED <<files, file_count, progress>>
               ELSE /\ files' = Append(files, Row(dirIdx, fileIdx))
                    /\ file_count' = file_count + 1
                    /\ consecutive_errors' = 0
                    /\ progress' = IF (file_count + 1) % batch_size(is_network) = 0
                                   THEN Append(progress, file_count + 1)
                                   ELSE progress
                    /\ UNCHANGED <<error_count, worstRun>>
    /\ UNCHANGED <<tree, extensions, dirIdx, is_network>>

\* The inner loop is exhausted
EndDir ==
    /\ scanPc = "files"
    /\ fileIdx > Len(tree[dirIdx])
    /\ scanPc' = "walk"
    /\ UNCHANGED <<tree, extensions, dirIdx, fileIdx, files, file_count, error_count,
                   consecutive_errors, cancelInfo, worstRun, is_network, progress>>

\* scan_directory is called on some tree with some filter
InitScanVars ==
    /\ tree \in Trees
    /\ extensions \in Filters
    /\ scanPc = "walk"
    /\ dirIdx = 0
    /\ fileIdx = 0
    /\ files = <<>>
    /\ file_count = 0
    /\ error_count = 0
    /\ consecutive_errors = 0
    /\ cancelInfo = None
    /\ worstRun = 0
    /\ is_network = FALSE
    /\ progress = <<>>

InitScan == InitScanVars /\ InitCacheVars /\ IdleDupVars /\ IdleRowVars /\ IdleExpVars

NextScan ==
    \/ \E cancel \in BOOLEAN : NextDir(cancel) /\ UNCHANGED notScanVars
    \/ EndWalk /\ UNCHANGED notScanVars
    \/ \E cancel \in BOOLEAN : NextFile(cancel) /\ UNCHANGED notScanVars
    \/ EndDir /\ UNCHANGED notScanVars

SpecScan == InitScan /\ [][NextScan]_vars

(***************************************************************************)
(* scan_directory claims                                                   *)
(***************************************************************************)

Returned == scanPc = "returned"
Raised == scanPc = "raised"
Cancelled == cancelInfo # None
NumFiles == FilesUpTo(tree, Len(tree))

\* C7: once cancel_check has returned true no further file is processed and no
\* further row is appended; the scan returns, without raising, exactly the rows
\* accumulated before that check, fewer than the number of files if the
\* predicate first returned true before all files were processed.
C7_CancelStopsScan ==
    /\ [][ Cancelled => (files' = files /\ ~Raised') ]_vars
    /\ [](Cancelled => ~Raised)
    /\ []((Returned /\ Cancelled) =>
            /\ Len(files) = cancelInfo[1].rows
            /\ (cancelInfo[1].processed < NumFiles => Len(files) < NumFiles))

\* C8: a run of max_consecutive_errors per-file errors with no built row in
\* between makes scan_directory raise instead of returning; a scan whose runs
\* are all shorter never raises.
C8_ErrorRunAborts ==
    /\ (Returned /\ ~Cancelled) => worstRun < max_consecutive_errors
    /\ Raised => worstRun >= max_consecutive_errors

\* The files of the tree, as rows
AllRows == { Row(d, i) : d \in 1..Len(tree), i \in 1..MaxDirFiles + max_consecutive_errors }
TreeRows == { r \in AllRows : r.file <= Len(tree[r.dir]) }
FileOf(r) == tree[r.dir][r.file]

\* The extension of a file passes the filter: the filter is empty or holds the
\* extension, letter case ignored
PassesFilter(f) ==
    extensions = <<>> \/ \E e \in 1..Len(extensions) : Lower(extensions[e]) = Lower(f.ext)

NoRowTwice(rows) == \A i, j \in 1..Len(rows) : rows[i] = rows[j] => i = j
RowSet(rows) == { rows[i] : i \in 1..Len(rows) }

\* C9 (as stated): a scan neither cancelled nor aborted returns exactly one row
\* per file whose extension passes the filter.
C9_OneRowPerPassingFile ==
    (Returned /\ ~Cancelled) =>
        /\ NoRowTwice(files)
        /\ RowSet(files) = { r \in TreeRows : PassesFilter(FileOf(r)) }

\* C9 (amended): ... per file whose extension passes the filter and whose row
\* was built without a per-file error.
C9_OneRowPerBuiltPassingFile ==
    (Returned /\ ~Cancelled) =>
        /\ NoRowTwice(files)
        /\ RowSet(files) = { r \in TreeRows : PassesFilter(FileOf(r)) /\ ~FileOf(r).fails }

\* A completed scan with a filter that kept a file, dropped a file, and skipped
\* a file whose row could not be built
C9_Witness ==
    /\ Returned /\ ~Cancelled
    /\ extensions # <<>>
    /\ files # <<>>
    /\ error_count > 0
    /\ \E r \in TreeRows : ~PassesFilter(FileOf(r))

(***************************************************************************)
(* DuplicateDetector: sequences of calls on one detector                   *)
(***************************************************************************)

\* The file systems of the sequence model: p1 holds one byte; p2 the same
\* byte or two bytes; p3 the same byte, another byte, or nothing at all
SeqFileSystems ==
    { [p \in FilePaths |-> IF p = "p1" THEN [content |-> <<"x">>, status |-> "ok"]
                           ELSE IF p = "p2" THEN f2 ELSE f3] :
        f2 \in [content : { <<"x">>, <<"x", "a">> }, status : {"ok"}],
        f3 \in [content : { <<"x">>, <<"y">> }, status : {"ok"}]
                  \cup [content : { <<>> }, status : {"missing"}] }

\* The row-set of a list of paths
Rows(paths) == [i \in 1..Len(paths) |-> Record(paths[i])]

\* Row-sets long enough for several groups of different counts
LongInputs ==
    { Rows(<<"p1", "p2", "p1", "p2">>),
      Rows(<<"p1", "p2", "p3", "p3", "p2">>),
      Rows(<<"p1", "p1", "p1", "p2", "p2">>),
      Rows(<<"p2", "p2", "p1", "p1", "p1">>),
      Rows(<<"p2", "p3", "p3", "p2", "p1", "p1">>) }

\* n times the path p
Repeat(p, n) == [i \in 1..n |-> p]

\* Row-sets long enough for the progress callback to be called once or twice
ProgressInputs ==
    { Rows(<<"p2">> \o Repeat("p1", progress_interval) \o Repeat("p3", progress_interval)),
      Rows(Repeat("p3", progress_interval - 1) \o <<"p2", "p1">>) }

\* The row-sets passed to find_duplicates
SeqInputs == SeqsUpTo({ Record(p) : p \in FilePaths }, MaxFiles) \cup LongInputs

\* The latest find_duplicates call (or the construction) behind a call record
LastFind(call) ==
    IF call.kind \in { "get_duplicate_stats", "export_duplicate_report" } THEN call.after
    ELSE call

\* sum(group['count'] - 1 for group in self.duplicates)
RECURSIVE SumCountMinusOne(_)
SumCountMinusOne(groups) ==
    IF groups = <<>> THEN 0
    ELSE (Head(groups).count - 1) + SumCountMinusOne(Tail(groups))

\* max(group['count'] for group in self.duplicates), on a list that is not empty
RECURSIVE MaxCount(_)
MaxCount(groups) ==
    IF Len(groups) = 1 THEN Head(groups).count
    ELSE Max(Head(groups).count, MaxCount(Tail(groups)))

\* sum((count - 1) * (total_size / count)) as an exact fraction [num, den]
RECURSIVE WastedFraction(_)
WastedFraction(groups) ==
    IF groups = <<>> THEN [num |-> 0, den |-> 1]
    ELSE LET g == Head(groups)
             rest == WastedFraction(Tail(groups))
         IN  [num |-> (g.count - 1) * g.total_size * rest.den + rest.num * g.count,
              den |-> g.count * rest.den]

\* int(x) of a fraction that is not negative
IntOf(fraction) == fraction.num \div fraction.den

\* The dict get_duplicate_stats returns for the group list `groups`
DuplicateStats_GroupsAsFiles(groups) ==
    IF groups = <<>>
    THEN [duplicate_groups |-> 0, duplicate_files |-> 0, wasted_space |-> 0,
          largest_group |-> 0]
    ELSE [duplicate_groups |-> Len(groups),
          duplicate_files |-> Len(groups),
          wasted_space |-> IntOf(WastedFraction(groups)),
          largest_group |-> MaxCount(groups)]

DuplicateStats(groups) ==
    IF groups = <<>>
    THEN [duplicate_groups |-> 0, duplicate_files |-> 0, wasted_space |-> 0,
          largest_group |-> 0]
    ELSE [duplicate_groups |-> Len(groups),
          duplicate_files |-> SumCountMinusOne(groups),
          wasted_space |-> IntOf(WastedFraction(groups)),
          largest_group |-> MaxCount(groups)]

\* DuplicateDetector.get_duplicate_stats()
get_duplicate_stats ==
    /\ dupCall' = [kind |-> "get_duplicate_stats", stats |-> DuplicateStats(duplicates),
                   after |-> LastFind(dupCall)]
    /\ UNCHANGED <<fs, dupInput, file_hashes, duplicates>>

\* What writing the report can do: succeed, fail on open, fail on a write
ReportIO == { "ok", "open_fails", "write_fails" }

\* The try/except of export_duplicate_report (lines 240-267): an exception raised
\* inside the with block is caught and turned into False
ReportOutcome_Propagates(io) ==
    IF io = "ok" THEN [raised |-> FALSE, ret |-> Some(TRUE)]
    ELSE [raised |-> TRUE, ret |-> None]

ReportOutcome(io) ==
    IF io = "ok" THEN [raised |-> FALSE, ret |-> Some(TRUE)]
    ELSE [raised |-> FALSE, ret |-> Some(FALSE)]

\* DuplicateDetector.export_duplicate_report(output_file)
export_duplicate_report(io) ==
    /\ dupCall' = [kind |-> "export_duplicate_report", io |-> io,
                   outcome |-> ReportOutcome(io),
                   stats |-> DuplicateStats(duplicates),
                   after |-> LastFind(dupCall)]
    /\ UNCHANGED <<fs, dupInput, file_hashes, duplicates>>

\* DuplicateDetector.__init__ over a file system of the sequence model
InitDupSeqVars ==
    /\ fs \in SeqFileSystems
    /\ dupInput = <<>>
    /\ file_hashes = <<>>
    /\ duplicates = <<>>
    /\ dupCall = [kind |-> "init"]

InitDupSeq == InitDupSeqVars /\ InitCacheVars /\ IdleScanVars /\ IdleRowVars /\ IdleExpVars

\* Any row-set may be passed to any call
NextDupSeq ==
    \/ \E file_list \in SeqInputs, q \in BOOLEAN :
          find_duplicates(file_list, q) /\ UNCHANGED notDupVars
    \/ get_duplicate_stats /\ UNCHANGED notDupVars

SpecDupSeq == InitDupSeq /\ [][NextDupSeq]_vars

\* Calls on one detector with long row-sets, and reports of what they found
NextDupLong ==
    \/ \E file_list \in LongInputs \cup ProgressInputs, q \in BOOLEAN :
          find_duplicates(file_list, q) /\ UNCHANGED notDupVars
    \/ get_duplicate_stats /\ UNCHANGED notDupVars
    \/ \E io \in ReportIO : export_duplicate_report(io) /\ UNCHANGED notDupVars

SpecDupLong == InitDupSeq /\ [][NextDupLong]_vars

(***************************************************************************)
(* DuplicateDetector claims on sequences of calls                          *)
(***************************************************************************)

\* A find_duplicates call has been made on the detector
SomeFind == LastFind(dupCall).kind = "find_duplicates"
StatsDone == dupCall.kind = "get_duplicate_stats"

\* What a new detector finds for the latest call
FreshGroups ==
    Duplicates(fs, FileHashes(fs, LastFind(dupCall).files, LastFind(dupCall).use_quick_hash))

\* The number of times record r occurs in the list l
Occurrences(l, r) == Cardinality({ i \in 1..Len(l) : l[i] = r })

\* C11: after any sequence of calls the group list is the one a new detector
\* computes for the latest find_duplicates input, every grouped record occurs in
\* the groups as often as in that input at most, and get_duplicate_stats returns
\* the statistics of those groups.
C11_GroupsOfLatestCallOnly ==
    /\ SomeFind =>
          /\ duplicates = FreshGroups
          /\ \A n \in 1..Len(duplicates) : \A m \in 1..Len(duplicates[n].files) :
                LET r == duplicates[n].files[m] IN
                Occurrences(Concat([k \in 1..Len(duplicates) |-> duplicates[k].files]), r)
                    <= Occurrences(LastFind(dupCall).files, r)
    /\ (SomeFind /\ StatsDone) => dupCall.stats = DuplicateStats(FreshGroups)
    /\ (~SomeFind /\ StatsDone) => dupCall.stats.duplicate_groups = 0

\* get_duplicate_stats after a call that found nothing, on a detector that
\* held a group of an earlier input when that call began
C11_Witness ==
    /\ StatsDone /\ SomeFind
    /\ LastFind(dupCall).had_groups
    /\ LastFind(dupCall).files = <<Record("p3")>>
    /\ dupCall.stats.duplicate_groups = 0

(***************************************************************************)
(* DuplicateDetector claims on files that cannot be hashed                 *)
(***************************************************************************)

\* The record names a file that exists and can be read
Hashable(r) == CanOpen(fs, r.FullPath)

InSomeGroup(r) == \E n \in 1..Len(duplicates) : InGroup(duplicates[n], r)

\* C12: find_duplicates returns; a record whose file is absent or fails on
\* open is in no group; two records with readable files are in the same group
\* iff their contents are identical, and a record with a readable file is in a
\* group iff another such record has identical content.
C12_UnhashableRecordsSkipped ==
    DupDone =>
        \A i \in 1..Len(dupInput) :
            IF ~Hashable(dupInput[i])
            THEN ~InSomeGroup(dupInput[i])
            ELSE /\ \A j \in (1..Len(dupInput)) \ {i} :
                       Hashable(dupInput[j]) =>
                          (InSameGroup(dupInput[i], dupInput[j])
                              <=> SameContent(dupInput[i], dupInput[j]))
                 /\ InSomeGroup(dupInput[i])
                       <=> \E j \in (1..Len(dupInput)) \ {i} :
                              Hashable(dupInput[j]) /\ SameContent(dupInput[i], dupInput[j])

\* Two identical readable files and, between them in the row-set, a file of the
\* same content that fails on open: one group, without the failing file
C12_Witness ==
    /\ DupDone
    /\ dupCall.use_quick_hash
    /\ dupInput = <<Record("p1"), Record("p3"), Record("p2")>>
    /\ fs["p1"] = [content |-> <<"x">>, status |-> "ok"]
    /\ fs["p2"] = [content |-> <<"x">>, status |-> "ok"]
    /\ fs["p3"] = [content |-> <<"x">>, status |-> "unreadable"]
    /\ Len(duplicates) = 1
    /\ duplicates[1].files = <<Record("p1"), Record("p2")>>

(***************************************************************************)
(* get_duplicate_stats claims                                              *)
(***************************************************************************)

\* All grouped records, and the first record of every group
GroupedRecords == Concat([n \in 1..Len(duplicates) |-> duplicates[n].files])
FirstMembers == [n \in 1..Len(duplicates) |-> duplicates[n].files[1]]

\* C13: get_duplicate_stats returns the number of groups, the number of grouped
\* records beyond one per group, the largest count (0 without groups), and as
\* wasted space the size of every grouped file beyond one per group, which is
\* the sum of (count - 1) * s over groups of files of size s.
C13_StatsOfGroups ==
    StatsDone =>
        LET st == dupCall.stats IN
        /\ st.duplicate_groups = Len(duplicates)
        /\ st.duplicate_files = Len(GroupedRecords) - Len(duplicates)
        /\ \A n \in 1..Len(duplicates) : duplicates[n].count <= st.largest_group
        /\ IF duplicates = <<>> THEN st.largest_group = 0
           ELSE \E n \in 1..Len(duplicates) : duplicates[n].count = st.largest_group
        /\ st.wasted_space = TotalSize(fs, GroupedRecords) - TotalSize(fs, FirstMembers)

\* Statistics of a group of 3 one-byte files and a group of 2 two-byte files
C13_Witness ==
    /\ StatsDone
    /\ Len(duplicates) = 2
    /\ dupCall.stats.duplicate_files = 3
    /\ dupCall.stats.largest_group = 3
    /\ dupCall.stats.wasted_space = 4

(***************************************************************************)
(* Group order                                                             *)
(***************************************************************************)

FindDone == dupCall.kind = "find_duplicates"

\* The place in the latest input of the first member of group n
FirstMemberPlace(n) == FirstIndex(duplicates[n].files[1], dupCall.files)

\* C14: the groups are in descending order of count, and of two groups with the
\* same count the one whose first member comes first in the input row-set
\* comes first.
C14_GroupOrder ==
    FindDone =>
        \A n, m \in 1..Len(duplicates) :
            n < m =>
                /\ duplicates[n].count >= duplicates[m].count
                /\ duplicates[n].count = duplicates[m].count
                      => FirstMemberPlace(n) < FirstMemberPlace(m)

(***************************************************************************)
(* ScanCache: the persisted store                                          *)
(***************************************************************************)

\* Cache entries as they may be found in a store: as put writes them, or an
\* object that has a timestamp but no 'results' and no 'file_count'
FullEntry(t) == [results |-> <<"r1", "r2">>, timestamp |-> t, file_count |-> 2]
PartEntry(t) == [timestamp |-> t]

\* Stores that make the try block of load_cache raise: open() or json.load()
\* fails; the document is not an object; its 'cache' is not an object; an entry
\* of its 'cache' is not an object
BrokenKinds == { "unreadable", "not_object", "cache_not_object", "entry_not_object" }
BrokenStore(kind) == [kind |-> kind, cache |-> EmptyDict, history |-> <<>>]

\* Stores that hold a JSON object with a 'cache' object and a 'history' list
ObjectStores ==
    { Saved(EmptyDict, <<>>),
      Saved([k \in { <<"a">> } |-> FullEntry(0)], << <<"a">> >>),
      Saved([k \in { <<"a">> } |-> PartEntry(0)], << <<"a">> >>),
      Saved([k \in { <<"a">>, <<"b">> } |-> FullEntry(0)], << <<"a">>, <<"b">> >>) }

InitialStores ==
    { AbsentStore } \cup { BrokenStore(k) : k \in BrokenKinds } \cup ObjectStores

\* for directory in expired_dirs: if directory in history: history.remove(directory)
RECURSIVE RemoveEach(_, _)
RemoveEach(h, dirs) ==
    IF dirs = {} THEN h
    ELSE LET d == CHOOSE x \in dirs : TRUE
             h1 == IF InList(d, h) THEN ListRemove(h, d) ELSE h
         IN  RemoveEach(h1, dirs \ {d})

\* _clean_expired at time t on the mapping c and the history h
CleanExpired(c, h, t) ==
    LET expired_dirs == { d \in DOMAIN c : t - c[d].timestamp > max_age_seconds }
    IN  [cache |-> [d \in (DOMAIN c) \ expired_dirs |-> c[d]],
         history |-> RemoveEach(h, expired_dirs)]

\* self.cache and self.history after __init__ (lines 33-35) and load_cache at time t
load_cache(st, t) ==
    IF st.kind = "absent" THEN [cache |-> EmptyDict, history |-> <<>>]
    ELSE IF st.kind \in BrokenKinds
    THEN \* except: self.cache = {}; self.history = []
         [cache |-> EmptyDict, history |-> <<>>]
    ELSE CleanExpired(st.cache, st.history, t)

\* ScanCache(cache_file): a new instance over the store, in place of the old one
NewScanCache ==
    LET loaded == load_cache(store, now)
    IN  /\ cache' = loaded.cache
        /\ history' = loaded.history
        /\ lastCall' = [kind |-> "init"]
        /\ UNCHANGED <<now, mtime, store>>

\* An instance constructed over any store
InitStoreVars ==
    /\ store \in InitialStores
    /\ now = 0
    /\ mtime = [k \in Keys |-> 0]
    /\ cache = load_cache(store, now).cache
    /\ history = load_cache(store, now).history
    /\ lastCall = [kind |-> "init"]

InitStore == InitStoreVars /\ IdleDupVars /\ IdleScanVars /\ IdleRowVars /\ IdleExpVars

NextStore ==
    \/ NewScanCache /\ UNCHANGED notCacheVars
    \/ \E p \in PathArgs : \E raises \in MtimeRaises(p) :
          Get(p, raises) /\ UNCHANGED notCacheVars
    \/ \E a \in PutArgs : Put(a[1], a[2]) /\ UNCHANGED notCacheVars
    \/ Clear /\ UNCHANGED notCacheVars
    \/ Tick /\ UNCHANGED notCacheVars
    \/ \E k \in ModifiedDirs : TouchDir(k) /\ UNCHANGED notCacheVars

SpecStore == InitStore /\ [][NextStore]_vars

(***************************************************************************)
(* Persisted store claims                                                  *)
(***************************************************************************)

\* The instance has just been constructed
JustLoaded == lastCall.kind = "init"
IsLoadStep == IsCallStep /\ lastCall'.kind = "init"
IsClearStep == IsCallStep /\ lastCall'.kind = "clear"

\* The store is as save_cache writes it: an object whose entries have results,
\* timestamp and file_count
WellShaped(st) ==
    /\ st.kind = "object"
    /\ \A d \in DOMAIN st.cache :
          DOMAIN st.cache[d] = { "results", "timestamp", "file_count" }

\* C15: an instance constructed over a store that is unreadable, corrupt or not
\* of the shape save_cache writes has no entries and an empty history.
C15_BadStoreLoadsEmpty ==
    (JustLoaded /\ store.kind # "absent" /\ ~WellShaped(store)) =>
        (cache = EmptyDict /\ history = <<>>)

\* The directories whose entry in the mapping c is within its max age
FreshDirs(c) == { d \in DOMAIN c : ~TooOld(c[d]) }

\* The store st holds the mapping c and the history h
StoreHolds(st, c, h) == st.kind = "object" /\ st.cache = c /\ st.history = h

NoDuplicates(l) == \A i, j \in 1..Len(l) : l[i] = l[j] => i = j

\* l without its last element; the list s is the end of the list l
Front(l) == SubSeq(l, 1, Len(l) - 1)
IsSuffix(s, l) == Len(s) <= Len(l) /\ s = SubSeq(l, Len(l) - Len(s) + 1, Len(l))

\* C17: the history never holds a directory twice; a put of d leaves d last and
\* before it the directories that were in the history, without d, in their old
\* order (the oldest may be dropped); get leaves the history alone and clear
\* empties it. So the history is in order of latest put, the latest last.
C17_HistoryByRecency ==
    /\ [](NoDuplicates(history))
    /\ [][ /\ IsPutStep =>
                LET d == normpath(lastCall'.dir) IN
                /\ history' # <<>>
                /\ history'[Len(history')] = d
                /\ IsSuffix(Front(history'), SelectSeq(history, LAMBDA x : x # d))
           /\ IsGetStep => history' = history
           /\ IsClearStep => history' = <<>>
         ]_vars

\* A put of a directory that was in the history, before another one: it is last
C17_Witness ==
    /\ lastCall.kind = "put"
    /\ lastCall.moved
    /\ Len(history) >= 2
    /\ history[Len(history)] = normpath(lastCall.dir)

(***************************************************************************)
(* parse_folder_structure and build_row                                    *)
(*                                                                         *)
(* Paths and names are texts: lists of characters.  os.sep is "/".         *)
(***************************************************************************)

\* Model bounds
MaxDepth      == 2    \* folders below the scanned directory
MaxFolderCols == 2    \* largest folder_cols

\* The letters of the model, lower and upper case
LowerLetters == <<"a", "b", "f", "g", "h", "p", "t", "x", "y">>
UpperLetters == <<"A", "B", "F", "G", "H", "P", "T", "X", "Y">>
IsLower(c) == \E i \in 1..Len(LowerLetters) : LowerLetters[i] = c
IsUpper(c) == \E i \in 1..Len(UpperLetters) : UpperLetters[i] = c
LowerChar(c) ==
    IF IsUpper(c) THEN LowerLetters[CHOOSE i \in 1..Len(UpperLetters) : UpperLetters[i] = c]
    ELSE c
UpperChar(c) ==
    IF IsLower(c) THEN UpperLetters[CHOOSE i \in 1..Len(LowerLetters) : LowerLetters[i] = c]
    ELSE c

\* str.lower()
LowerText(t) == [i \in 1..Len(t) |-> LowerChar(t[i])]

\* str.title(): a letter after a letter is lowered, any other letter is raised
TitleText(t) ==
    [i \in 1..Len(t) |->
        IF i > 1 /\ (IsLower(t[i - 1]) \/ IsUpper(t[i - 1]))
        THEN LowerChar(t[i]) ELSE UpperChar(t[i])]

\* str.startswith(prefix)
StartsWith(t, prefix) == Len(prefix) <= Len(t) /\ SubSeq(t, 1, Len(prefix)) = prefix

\* str.replace(old, ""): every occurrence of old, from the left, is removed
RECURSIVE RemoveAll(_, _)
RemoveAll(t, old) ==
    IF t = <<>> \/ old = <<>> THEN t
    ELSE IF StartsWith(t, old) THEN RemoveAll(SubSeq(t, Len(old) + 1, Len(t)), old)
    ELSE <<Head(t)>> \o RemoveAll(Tail(t), old)

\* str.lstrip(c)
RECURSIVE LStrip(_, _)
LStrip(t, c) == IF t # <<>> /\ Head(t) = c THEN LStrip(Tail(t), c) ELSE t

\* str.split(sep) for a separator of one character
RECURSIVE SplitFrom(_, _, _)
SplitFrom(t, sep, current) ==
    IF t = <<>> THEN <<current>>
    ELSE IF Head(t) = sep THEN <<current>> \o SplitFrom(Tail(t), sep, <<>>)
    ELSE SplitFrom(Tail(t), sep, Append(current, Head(t)))
Split(t, sep) == SplitFrom(t, sep, <<>>)

\* parse_folder_structure(full_path, base_path, title_case)
parse_folder_structure(full_path, base_path, title_case) ==
    LET relative_path == LStrip(LStrip(RemoveAll(full_path, base_path), "\\"), "/")
        parts == Split(relative_path, "/")
        folders == SelectSeq(parts, LAMBDA f : f # <<>>)
    IN  IF title_case THEN [i \in 1..Len(folders) |-> TitleText(folders[i])] ELSE folders

\* os.path.join(a, b) on posix
join_AlwaysSeparator(a, b) ==
    a \o <<"/">> \o b

join(a, b) ==
    IF StartsWith(b, <<"/">>) THEN b
    ELSE IF a = <<>> \/ a[Len(a)] = "/" THEN a \o b
    ELSE a \o <<"/">> \o b

\* os.path.splitext(name)[1]: from the last dot, unless only dots precede it
splitext_ext(name) ==
    LET dots == { i \in 1..Len(name) : name[i] = "." }
    IN  IF dots = {} THEN <<>>
        ELSE LET last == CHOOSE i \in dots : \A j \in dots : j <= i
             IN  IF \A j \in 1..(last - 1) : name[j] = "." THEN <<>>
                 ELSE SubSeq(name, last, Len(name))

\* get_file_type, for the extensions of the model
get_file_type(extension) ==
    LET ext == LowerText(extension)
    IN  IF ext = <<".", "t", "x", "t">> THEN "Document"
        ELSE IF ext = <<".", "p", "y">> THEN "Code"
        ELSE "Other"

\* The names of the folder columns: f"Folder{i + 1}"
FolderKeys == <<"Folder1", "Folder2", "Folder3", "Folder4">>
FolderKey(i) == FolderKeys[i]

\* What get_file_dates and get_file_author return for the file: (None, None) and
\* None when the file cannot be read, dates without author, or both
FileMetas ==
    { [created |-> None, modified |-> None, author |-> None],
      [created |-> Some(<<"d", "1">>), modified |-> Some(<<"d", "2">>), author |-> None],
      [created |-> Some(<<"d", "1">>), modified |-> Some(<<"d", "2">>),
       author |-> Some(<<"A">>)] }

\* The value of folder column i: folders[i] if i < len(folders) else None
Slot_EmptyString(folders, i) ==
    IF i <= Len(folders) THEN Some(folders[i]) ELSE Some(<<>>)

Slot(folders, i) ==
    IF i <= Len(folders) THEN Some(folders[i]) ELSE None

\* build_row(filename, dirpath, root_name, folders, folder_cols, include_dates,
\* include_author): the row as a mapping from column name to value
build_row(filename, dirpath, root_name, folders, folder_cols, include_dates, include_author, meta) ==
    LET columns == { "RootFolder", "FolderString", "FullPath", "FileName", "FileExtension",
                     "FileType" }
                     \cup { FolderKey(i) : i \in 1..folder_cols }
                     \cup (IF include_dates THEN { "DateCreated", "DateModified" } ELSE {})
                     \cup (IF include_author THEN { "Author" } ELSE {})
        slot(k) == CHOOSE i \in 1..folder_cols : FolderKey(i) = k
    IN  [k \in columns |->
            IF k = "RootFolder" THEN root_name
            ELSE IF k = "FolderString" THEN dirpath
            ELSE IF k = "FullPath" THEN join(dirpath, filename)
            ELSE IF k = "FileName" THEN filename
            ELSE IF k = "FileExtension" THEN LowerText(splitext_ext(filename))
            ELSE IF k = "FileType" THEN get_file_type(LowerText(splitext_ext(filename)))
            ELSE IF k = "DateCreated" THEN meta.created
            ELSE IF k = "DateModified" THEN meta.modified
            ELSE IF k = "Author" THEN meta.author
            ELSE Slot(folders, slot(k))]

\* is_network_path(path) on posix: a UNC path
is_network_path(path) == StartsWith(path, <<"\\", "\\">>)

\* The directory os.walk yields for the folders sub below the directory top
RECURSIVE WalkPath(_, _)
WalkPath(top, sub) ==
    IF sub = <<>> THEN top ELSE WalkPath(join(top, Head(sub)), Tail(sub))

\* The scanned directories: absolute, relative, with a trailing separator, UNC
Directories ==
    { <<"/", "a">>, <<"a">>, <<"/", "a", "/">>, <<"\\", "\\", "a">> }

\* Folder names and file names
FolderNames == { <<"a">>, <<"b">>, <<"a", "b">> }
FileNames == { <<"f", ".", "T", "X", "T">>, <<"g", ".", "p", "y">>, <<"h">> }

\* include_dates, include_author
RowOptions == { <<TRUE, TRUE>>, <<TRUE, FALSE>>, <<FALSE, FALSE>> }

\* The arguments of a call
RowInputs ==
    [directory : Directories, sub : SeqsUpTo(FolderNames, MaxDepth), filename : FileNames,
     root_name : { <<"R">> }, folder_cols : 0..MaxFolderCols, title_case : BOOLEAN,
     options : RowOptions, meta : FileMetas]

\* parse_folder_structure(dirpath, directory, title_case) for a walked directory
ParseFolders ==
    LET a == rowCall.args IN
    rowCall' = [fn |-> "parse_folder_structure", args |-> a,
                ret |-> parse_folder_structure(WalkPath(a.directory, a.sub), a.directory,
                                               a.title_case)]

\* build_row for a file of a walked directory, with the folders given by the caller
BuildRow ==
    LET a == rowCall.args IN
    rowCall' = [fn |-> "build_row", args |-> a, folders |-> a.sub,
                network |-> is_network_path(a.directory),
                ret |-> build_row(a.filename, WalkPath(a.directory, a.sub), a.root_name, a.sub,
                                  a.folder_cols, a.options[1], a.options[2], a.meta)]

\* scan_directory's row for one file (lines 419-431): the folders are parsed from
\* the walked directory
ScanFile ==
    LET a == rowCall.args
        dirpath == WalkPath(a.directory, a.sub)
        folders == parse_folder_structure(dirpath, a.directory, a.title_case)
    IN  rowCall' = [fn |-> "scan_directory", args |-> a, folders |-> folders,
                    network |-> is_network_path(a.directory),
                    ret |-> build_row(a.filename, dirpath, a.root_name, folders, a.folder_cols,
                                      a.options[1], a.options[2], a.meta)]

\* Any arguments, no call made yet
InitRowVars == rowCall \in { [fn |-> "none", args |-> a] : a \in RowInputs }

InitRows == InitRowVars /\ InitCacheVars /\ IdleDupVars /\ IdleScanVars /\ IdleExpVars

NextRows ==
    \/ ParseFolders /\ UNCHANGED notRowVars
    \/ BuildRow /\ UNCHANGED notRowVars
    \/ ScanFile /\ UNCHANGED notRowVars

SpecRows == InitRows /\ [][NextRows]_vars

(***************************************************************************)
(* Row claims                                                              *)
(***************************************************************************)

\* A row has been built, by build_row or by scan_directory
RowBuilt == rowCall.fn \in { "build_row", "scan_directory" }

\* C18: in every row FullPath ends with FileName and begins with FolderString;
\* between them is one separator, or nothing when FolderString is empty or ends
\* with the separator.
C18_FullPathIsJoin ==
    RowBuilt =>
        LET row == rowCall.ret
            folder == row["FolderString"]
            name == row["FileName"]
            sep == IF folder = <<>> \/ folder[Len(folder)] = "/" THEN <<>> ELSE <<"/">>
        IN  row["FullPath"] = folder \o sep \o name

\* A row of a scan in network mode, for a file two folders below the directory
C18_Witness ==
    /\ rowCall.fn = "scan_directory"
    /\ rowCall.network
    /\ rowCall.ret["FolderString"] = <<"\\", "\\", "a", "/", "b", "/", "a">>
    /\ rowCall.ret["FullPath"] = <<"\\", "\\", "a", "/", "b", "/", "a", "/", "h">>

\* The folder columns of a row
FolderColumns(row) == { k \in DOMAIN row : \E i \in 1..Len(FolderKeys) : FolderKeys[i] = k }

\* C19: a row has the columns Folder1..Folder<folder_cols> and no other folder
\* column; column i holds the i-th folder when there is one and None otherwise.
C19_FolderSlots ==
    RowBuilt =>
        LET row == rowCall.ret
            n == rowCall.args.folder_cols
        IN  /\ FolderColumns(row) = { FolderKeys[i] : i \in 1..n }
            /\ \A i \in 1..n :
                  IF i <= Len(rowCall.folders)
                  THEN row[FolderKeys[i]] = Some(rowCall.folders[i])
                  ELSE row[FolderKeys[i]] = None /\ row[FolderKeys[i]] # Some(<<>>)

\* A row with two folder columns for a directory one folder deep
C19_Witness ==
    /\ rowCall.fn = "scan_directory"
    /\ rowCall.args.folder_cols = 2
    /\ rowCall.folders = << <<"B">> >>
    /\ rowCall.ret["Folder1"] = Some(<<"B">>)
    /\ rowCall.ret["Folder2"] = None

\* C20: parse_folder_structure(P, B, title_case=False) returns the folders of P
\* below B, in order.
C20_FoldersBelowBase ==
    (rowCall.fn = "parse_folder_structure" /\ ~rowCall.args.title_case) =>
        rowCall.ret = rowCall.args.sub

(***************************************************************************)
(* ScanCache over more directories than the history keeps                  *)
(***************************************************************************)

\* Five directories: one more than the 2 * max_cache_size names the history keeps
WideDirs == { <<"a">>, <<"b">>, <<"c">>, <<"d">>, <<"e">> }

\* The directories that are read back with get() and that the environment modifies
ReadDirs == { <<"b">>, <<"c">>, <<"d">> }

\* The row-set of every put
WideRows == <<"r1", "r2">>

\* The clock values: two ticks, enough for two rounds of modifications
WideClock == { 0, 1, 2 }

\* State after ScanCache.__init__ with no cache file on disk
InitWideVars ==
    /\ cache = EmptyDict
    /\ history = <<>>
    /\ now = 0
    /\ mtime = [k \in WideDirs |-> 0]
    /\ store = AbsentStore
    /\ lastCall = [kind |-> "init"]

InitWide == InitWideVars /\ IdleDupVars /\ IdleScanVars /\ IdleRowVars /\ IdleExpVars

NextWide ==
    \/ \E p \in ReadDirs : Get(p, FALSE) /\ UNCHANGED notCacheVars
    \/ \E p \in WideDirs : Put(p, WideRows) /\ UNCHANGED notCacheVars
    \/ Clear /\ UNCHANGED notCacheVars
    \/ (now + 1 \in WideClock) /\ Tick /\ UNCHANGED notCacheVars
    \/ \E k \in ReadDirs : TouchDir(k) /\ UNCHANGED notCacheVars

SpecWide == InitWide /\ [][NextWide]_vars

\* C27: after any sequence of put, get and clear calls on a cache that started
\* empty, every key of the cache mapping is in the history list.
C27_CachedKeysInHistory == \A k \in DOMAIN cache : InList(k, history)

\* C28: get(D) leaves the history list and the persisted store unchanged in
\* every case; a miss and a hit leave the cache mapping unchanged too, and an
\* eviction on read (by age or by modification) removes D from the cache
\* mapping and nothing else.
C28_GetFrame ==
    [][ IsGetStep =>
          LET d == normpath(lastCall'.dir) IN
          /\ history' = history
          /\ store' = store
          /\ IF lastCall'.outcome \in { "expired", "modified" }
             THEN d \in DOMAIN cache /\ cache' = DictDel(cache, d)
             ELSE cache' = cache
      ]_vars

\* A get has evicted a directory that was put before another one: it is still
\* in the history, before the other, and still in the store
C28_Witness ==
    /\ lastCall.kind = "get"
    /\ lastCall.outcome = "modified"
    /\ normpath(lastCall.dir) \notin DOMAIN cache
    /\ Len(history) = 2
    /\ history[1] = normpath(lastCall.dir)
    /\ normpath(lastCall.dir) \in DOMAIN store.cache

\* A get has served a directory that was put before another one: it is still
\* the first of the history
C28_HitWitness ==
    /\ lastCall.kind = "get"
    /\ lastCall.outcome = "hit"
    /\ Len(history) = 2
    /\ history[1] = normpath(lastCall.dir)

(***************************************************************************)
(* Groups and input records                                                *)
(***************************************************************************)

\* The records of group n
MembersOf(n) == { duplicates[n].files[m] : m \in 1..Len(duplicates[n].files) }

\* C30: after a find_duplicates call every group member is a record of the
\* input, with the fields it has there; no record is in two groups; and no
\* record occurs in the groups more often than in the input.
C30_GroupsDisjointFromInput ==
    SomeFind =>
        LET input == LastFind(dupCall).files IN
        /\ \A n \in 1..Len(duplicates) : \A r \in MembersOf(n) :
              /\ InList(r, input)
              /\ DOMAIN r = { "FullPath" }
        /\ \A n1, n2 \in 1..Len(duplicates) :
              n1 # n2 => MembersOf(n1) \cap MembersOf(n2) = {}
        /\ \A i \in 1..Len(input) :
              Occurrences(GroupedRecords, input[i]) <= Occurrences(input, input[i])

\* A call that found two groups, each holding a record that is twice in the
\* input, and left a record out
C30_Witness ==
    /\ dupCall.kind = "find_duplicates"
    /\ dupCall.files = Rows(<<"p1", "p2", "p3", "p3", "p2">>)
    /\ Len(duplicates) = 2
    /\ Occurrences(GroupedRecords, Record("p2")) = 2
    /\ Occurrences(GroupedRecords, Record("p3")) = 2
    /\ Occurrences(GroupedRecords, Record("p1")) = 0

(***************************************************************************)
(* Progress of find_duplicates                                             *)
(***************************************************************************)

\* The input records whose file exists and has the size of the file of another
\* input record: the members of size groups of 2 or more
SizeMates(input) ==
    { i \in 1..Len(input) :
        /\ exists(fs, input[i].FullPath)
        /\ \E j \in (1..Len(input)) \ {i} :
              /\ exists(fs, input[j].FullPath)
              /\ getsize(fs, input[j].FullPath) = getsize(fs, input[i].FullPath) }

\* C25: within one find_duplicates call every progress callback receives the
\* same total, the number of records in size groups of 2 or more; the processed
\* count is a positive multiple of 10, increases strictly from one callback to
\* the next and never exceeds the total, with and without the quick hash.
C25_ProgressCalls ==
    dupCall.kind = "find_duplicates" =>
        LET calls == dupCall.progress
            total == Cardinality(SizeMates(dupCall.files))
        IN  /\ \A k \in 1..Len(calls) :
                  /\ calls[k].total = total
                  /\ calls[k].processed > 0
                  /\ calls[k].processed % 10 = 0
                  /\ calls[k].processed <= total
            /\ \A k \in 1..(Len(calls) - 1) : calls[k].processed < calls[k + 1].processed

\* A call with the quick hash in which the callback was called twice, with a
\* record of a size of its own in the input
C25_Witness ==
    /\ dupCall.kind = "find_duplicates"
    /\ dupCall.use_quick_hash
    /\ Len(dupCall.files) = 21
    /\ dupCall.progress = << [processed |-> 10, total |-> 20], [processed |-> 20, total |-> 20] >>

(***************************************************************************)
(* scan_directory over long trees, network paths and filters of any case   *)
(***************************************************************************)

\* n files of one kind
Run(kind, n) == [i \in 1..n |-> kind]

\* Trees long enough for the progress batches: 110 rows over two directories
\* with a filtered-out and a failing file between them; exactly 100 rows; one
\* row followed by a directory of 10 failing files and one more directory
LongTrees ==
    { << Run(TxtFile, 60), <<PyFile, BrokenFile>> \o Run(TxtFile, 50) >>,
      << Run(TxtFile, 100) >>,
      << <<TxtFile>>, Run(BrokenFile, max_consecutive_errors), <<TxtFile>> >> }

\* Small trees of one directory
ShortTrees == { <<d>> : d \in SeqsUpTo(FileKinds, 2) }

\* The extensions argument in lower, upper and mixed case
CaseFilters == { <<>>, <<".txt">>, <<".TXT">>, <<".Txt", ".py">> }

\* scan_directory is called on a local or a network directory
InitScanArgsVars ==
    /\ tree \in LongTrees \cup ShortTrees
    /\ extensions \in CaseFilters
    /\ is_network \in BOOLEAN
    /\ scanPc = "walk"
    /\ dirIdx = 0
    /\ fileIdx = 0
    /\ files = <<>>
    /\ file_count = 0
    /\ error_count = 0
    /\ consecutive_errors = 0
    /\ cancelInfo = None
    /\ worstRun = 0
    /\ progress = <<>>

InitScanArgs == InitScanArgsVars /\ InitCacheVars /\ IdleDupVars /\ IdleRowVars /\ IdleExpVars

SpecScanArgs == InitScanArgs /\ [][NextScan]_vars

(***************************************************************************)
(* Extension filter and progress claims                                    *)
(***************************************************************************)

\* The files of the tree, as rows
ScannedRows == UNION { { Row(d, i) : i \in 1..Len(tree[d]) } : d \in 1..Len(tree) }

\* C21: with a non-empty filter a completed scan keeps a file whose row can be
\* built iff its extension equals a filter entry, letter case ignored on both
\* sides.
C21_FilterIgnoresCase ==
    (Returned /\ ~Cancelled /\ extensions # <<>>) =>
        \A r \in ScannedRows :
            ~FileOf(r).fails =>
                (r \in RowSet(files)
                    <=> \E e \in 1..Len(extensions) : Lower(extensions[e]) = Lower(FileOf(r).ext))

\* The batch calls for n records with batch size b: b, 2b, ...
BatchCalls(n, b) == [k \in 1..(n \div b) |-> k * b]

\* The calls expected for the records built so far
ExpectedBatchCalls == BatchCalls(file_count, IF is_network THEN 50 ELSE 100)
ExpectedFinalCalls ==
    ExpectedBatchCalls \o (IF file_count > 0 THEN <<file_count>> ELSE <<>>)

NonDecreasing(l) == \A i \in 1..(Len(l) - 1) : l[i] <= l[i + 1]

\* C23 (as stated): the callback receives the record count at every multiple
\* of the batch size, the values never decrease, and when the scan has ended,
\* by returning or by raising, it has been called once more with the final
\* count iff a record was produced.
C23_ProgressWithFinalCall ==
    /\ file_count = Len(files)
    /\ NonDecreasing(progress)
    /\ ~(Returned \/ Raised) => progress = ExpectedBatchCalls
    /\ (Returned \/ Raised) => progress = ExpectedFinalCalls

\* C23 (amended): ... when the scan has returned, cancelled or not, it has
\* been called once more with the final count iff a record was produced; a
\* scan that raises makes no final call.
C23_ProgressWithFinalCallOnReturn ==
    /\ file_count = Len(files)
    /\ NonDecreasing(progress)
    /\ ~Returned => progress = ExpectedBatchCalls
    /\ Returned => progress = ExpectedFinalCalls

\* A cancelled scan of a network directory that made two batch calls and the
\* final call
C23_Witness ==
    /\ Returned /\ Cancelled
    /\ is_network
    /\ Len(progress) = 3
    /\ progress[1] = 50 /\ progress[2] = 100
    /\ progress[3] = file_count /\ file_count > 100

(***************************************************************************)
(* parse_extensions                                                        *)
(***************************************************************************)

MaxExtLen == 5    \* longest extension string

\* The characters of an extension string
ExtChars == { "a", "B", ".", " ", "," }

\* The extension_string argument: None or a string
ExtensionStrings == { None } \cup { Some(t) : t \in SeqsUpTo(ExtChars, MaxExtLen) }

\* str.strip() on strings whose only whitespace is the space
RECURSIVE RStrip(_, _)
RStrip(t, c) ==
    IF t # <<>> /\ t[Len(t)] = c THEN RStrip(SubSeq(t, 1, Len(t) - 1), c) ELSE t
Strip(t) == RStrip(LStrip(t, " "), " ")

\* e.strip().lower() if e.strip().startswith(".") else f".{e.strip().lower()}"
DotPrefixed(e) ==
    IF StartsWith(Strip(e), <<".">>) THEN LowerText(Strip(e))
    ELSE <<".">> \o LowerText(Strip(e))

\* parse_extensions(extension_string)
parse_extensions(extension_string) ==
    IF extension_string = None \/ extension_string[1] = <<>>
          \/ Strip(extension_string[1]) = <<>>
    THEN <<>>
    ELSE LET items == Split(extension_string[1], ",")
         IN  [i \in 1..Len(items) |-> DotPrefixed(items[i])]

ParseExtensions ==
    rowCall' = [fn |-> "parse_extensions", args |-> rowCall.args,
                ret |-> parse_extensions(rowCall.args.extension_string)]

InitExtVars ==
    rowCall \in { [fn |-> "none", args |-> [extension_string |-> x]] : x \in ExtensionStrings }

InitExt == InitExtVars /\ InitCacheVars /\ IdleDupVars /\ IdleScanVars /\ IdleExpVars

NextExt == ParseExtensions /\ UNCHANGED notRowVars

SpecExt == InitExt /\ [][NextExt]_vars

\* The string holds only spaces (or nothing)
Blank(t) == \A i \in 1..Len(t) : t[i] = " "

\* The number of commas of a string
Commas(t) == Cardinality({ i \in 1..Len(t) : t[i] = "," })

\* C22: for None, the empty string and a blank string parse_extensions returns
\* the empty list; otherwise one entry per comma-separated item, in order: the
\* item trimmed and lower-cased, beginning with exactly one dot whether or not
\* the item began with a dot.
C22_ParseExtensions ==
    rowCall.fn = "parse_extensions" =>
        LET x == rowCall.args.extension_string
            ret == rowCall.ret
        IN  IF x = None \/ Blank(x[1]) THEN ret = <<>>
            ELSE LET items == Split(x[1], ",") IN
                 /\ Len(ret) = Commas(x[1]) + 1
                 /\ \A i \in 1..Len(ret) :
                       ret[i] = <<".">> \o LStrip(LowerText(Strip(items[i])), ".")

(***************************************************************************)
(* export_duplicate_report claims                                          *)
(***************************************************************************)

IsExportStep == dupCall'.kind = "export_duplicate_report"

\* C24: export_duplicate_report never raises; it returns True when the report
\* was written and False when writing failed, and leaves the group list and
\* the statistics as they were.
C24_ExportReportNeverRaises ==
    [][ IsExportStep =>
          /\ ~dupCall'.outcome.raised
          /\ dupCall'.outcome.ret = Some(dupCall'.io = "ok")
          /\ duplicates' = duplicates
          /\ DuplicateStats(duplicates') = DuplicateStats(duplicates)
      ]_vars

\* A report of two groups whose writing failed
C24_Witness ==
    /\ dupCall.kind = "export_duplicate_report"
    /\ dupCall.io = "write_fails"
    /\ dupCall.outcome.ret = Some(FALSE)
    /\ Len(duplicates) = 2
    /\ dupCall.stats.duplicate_groups = 2

(***************************************************************************)
(* The export workflow (src/file_exporter.py, FileLocationExporter.export)  *)
(***************************************************************************)

\* The directories the user selects: relative names of one component, so the
\* text of the path and its list of components are the same value
ExportDirs == { <<"a">>, <<"b">> }

\* The files of every directory, and what their dates and author read as
Listing == << <<"f", ".", "T", "X", "T">>, <<"g", ".", "p", "y">> >>
ListingMeta ==
    [created |-> Some(<<"d", "1">>), modified |-> Some(<<"d", "2">>), author |-> None]

\* The settings of the window when Export is clicked
ExportOptions ==
    { [root_name |-> <<"R">>, folder_cols |-> c[1], title_case |-> TRUE,
       include_dates |-> c[2], include_author |-> FALSE, detect_duplicates |-> c[3]] :
        c \in { <<1, FALSE, FALSE>>, <<2, TRUE, FALSE>>, <<1, FALSE, TRUE>> } }

\* parse_extensions(self.extensions_var.get()): no filter, or ".txt"
ExportFilters == { <<>>, << <<".", "t", "x", "t">> >> }

\* How the scan of an export ends: complete, cancelled after some rows, or raising
ScanOutcomes ==
    { [kind |-> "complete", rows |-> Len(Listing)], [kind |-> "raised", rows |-> 0] }
        \cup { [kind |-> "cancelled", rows |-> k] : k \in 0..Len(Listing) }

\* scan_directory(directory, ...) as called by export (lines 764-774): the rows of
\* the files that pass the filter, up to the row where the scan was cancelled
ScanRows(directory, o, exts, limit) ==
    LET passing == SelectSeq(Listing,
                       LAMBDA f : exts = <<>> \/ InList(LowerText(splitext_ext(f)), exts))
        folders == parse_folder_structure(directory, directory, o.title_case)
    IN  [i \in 1..Min(limit, Len(passing)) |->
            build_row(passing[i], directory, o.root_name, folders, o.folder_cols,
                      o.include_dates, o.include_author, ListingMeta)]

\* Lines 798-807: every row gets a DuplicateGroup column (the files of the
\* listing differ, so each is 'Unique')
WithDuplicateGroup(row) ==
    [k \in (DOMAIN row) \cup { "DuplicateGroup" } |->
        IF k = "DuplicateGroup" THEN <<"U">> ELSE row[k]]

\* Line 777: if not extensions and not self.cancel_requested
ShouldCache_IgnoresCancel(exts, cancelled) == exts = <<>>

ShouldCache(exts, cancelled) == exts = <<>> /\ ~cancelled

\* export up to the cache lookup (lines 684-755): the settings are read, the
\* cache is asked, and its rows are taken if there are any and no filter is set
ExportBegin(directory, o, exts, mtime_raises) ==
    /\ exp.pc \in { "idle", "done" }
    /\ Get(directory, mtime_raises)
    /\ LET cached_files == lastCall'.ret IN
       IF cached_files # None /\ cached_files[1] # <<>> /\ exts = <<>>
       THEN exp' = [pc |-> "detect", directory |-> directory, options |-> o,
                    extensions |-> exts, files |-> cached_files[1], source |-> "cache",
                    cancelled |-> FALSE]
       ELSE exp' = [pc |-> "scan", directory |-> directory, options |-> o,
                    extensions |-> exts, files |-> <<>>, source |-> "scan",
                    cancelled |-> FALSE]

\* The scan and the cache write (lines 764-778); a scan that raises ends the
\* export in its except block
ExportScan(outcome) ==
    /\ exp.pc = "scan"
    /\ IF outcome.kind = "raised"
       THEN /\ exp' = [exp EXCEPT !.pc = "done", !.source = "failed"]
            /\ UNCHANGED cacheVars
       ELSE LET rows == ScanRows(exp.directory, exp.options, exp.extensions, outcome.rows)
                cancelled == outcome.kind = "cancelled"
            IN  /\ exp' = [exp EXCEPT !.pc = "detect", !.files = rows,
                                      !.cancelled = cancelled]
                /\ IF ShouldCache(exp.extensions, cancelled)
                   THEN Put(exp.directory, rows)
                   ELSE UNCHANGED cacheVars

\* Duplicate detection (lines 784-807) and the rest of export: the rows are
\* changed in place, so a cache entry that holds the same list changes with them
ExportFinish ==
    /\ exp.pc = "detect"
    /\ LET d == normpath(exp.directory) IN
       IF exp.options.detect_duplicates /\ ~exp.cancelled
       THEN LET marked == [i \in 1..Len(exp.files) |-> WithDuplicateGroup(exp.files[i])]
            IN  /\ exp' = [exp EXCEPT !.pc = "done", !.files = marked]
                /\ cache' = IF d \in DOMAIN cache /\ "results" \in DOMAIN cache[d]
                               /\ cache[d].results = exp.files
                            THEN [cache EXCEPT ![d].results = marked]
                            ELSE cache
       ELSE /\ exp' = [exp EXCEPT !.pc = "done"]
            /\ cache' = cache
    /\ UNCHANGED <<history, now, mtime, store, lastCall>>

\* The clock readings of the exports, and the directory that is modified between them
ExportClock == { 0, 1, 2 }
ExportModifiedDirs == { <<"a">> }

InitExport == InitCacheVars /\ IdleDupVars /\ IdleScanVars /\ IdleRowVars /\ IdleExpVars

NextExport ==
    \/ \E directory \in ExportDirs, o \in ExportOptions, exts \in ExportFilters :
          \E raises \in MtimeRaises(directory) :
             ExportBegin(directory, o, exts, raises) /\ UNCHANGED notCacheExpVars
    \/ \E outcome \in ScanOutcomes : ExportScan(outcome) /\ UNCHANGED notCacheExpVars
    \/ ExportFinish /\ UNCHANGED notCacheExpVars
    \/ Clear /\ UNCHANGED notCacheVars
    \/ (now + 1 \in ExportClock) /\ Tick /\ UNCHANGED notCacheVars
    \/ \E k \in ExportModifiedDirs : TouchDir(k) /\ UNCHANGED notCacheVars

SpecExport == InitExport /\ [][NextExport]_vars

(***************************************************************************)
(* Export workflow claims                                                  *)
(***************************************************************************)

\* The file names of a row-set
NamesOf(rows) == { rows[i]["FileName"] : i \in 1..Len(rows) }
AllNames == { Listing[i] : i \in 1..Len(Listing) }

\* A cache write
IsCacheWrite == lastCall' # lastCall /\ lastCall'.kind = "put"

\* C26: a cache entry is written only by the scan step of an export without
\* filter whose scan was not cancelled; rows are taken from the cache only by
\* an export without filter; every cached row-set lists all the files of its
\* directory.
C26_CacheHoldsFullListings ==
    /\ [][ IsCacheWrite =>
             /\ exp.pc = "scan" /\ exp'.pc = "detect"
             /\ exp'.extensions = <<>>
             /\ ~exp'.cancelled
             /\ lastCall'.rows = exp'.files ]_vars
    /\ [](exp.source = "cache" => exp.extensions = <<>>)
    /\ [](\A k \in DOMAIN cache :
             /\ Len(cache[k].results) = Len(Listing)
             /\ NamesOf(cache[k].results) = AllNames)

\* An export with a filter that found a cache entry for its directory and
\* scanned anyway, leaving the entry as it was
C26_Witness ==
    /\ exp.pc = "done"
    /\ exp.source = "scan"
    /\ exp.extensions # <<>>
    /\ Len(exp.files) = 1
    /\ lastCall.kind = "get" /\ lastCall.outcome = "hit"
    /\ normpath(exp.directory) \in DOMAIN cache

\* The rows a fresh scan with the settings of the export gives
FreshRows(e) ==
    LET rows == ScanRows(e.directory, e.options, <<>>, Len(Listing))
    IN  IF e.options.detect_duplicates
        THEN [i \in 1..Len(rows) |-> WithDuplicateGroup(rows[i])]
        ELSE rows

\* C29: an export without filter that took its rows from the cache holds the
\* rows a fresh scan with its settings gives.
C29_CacheHitEqualsFreshScan ==
    (exp.pc = "done" /\ exp.source = "cache") => exp.files = FreshRows(exp)

====
